---------------------------- MODULE Spec2Model ----------------------------
(***************************************************************************)
(* Model of the forecasting utilities of the Ethiopia financial-inclusion  *)
(* forecasting system (src/src/forecasting.py).                            *)
(*                                                                         *)
(* The functions are pure: a caller invokes one of them with arguments and *)
(* receives a result (or an exception).  The state is the last call made:  *)
(* its name (op), its arguments as passed (args), what it returned or      *)
(* raised (ret), and the contents of the argument objects when it returned *)
(* (args_after).  One object outlives the calls: the list that is the      *)
(* default value of forecast_access_usage's forecast_years parameter,      *)
(* created once when the function is defined (default_forecast_years).     *)
(* Modelled: scenario_forecast, linear_trend_forecast, log_trend_forecast, *)
(* calculate_growth_rates, forecast_access_usage, create_forecast_table.   *)
(*                                                                         *)
(* Percentages handled by scenario_forecast are counted in half points     *)
(* (1 unit = 0.5 percentage point), so 2.5 pp is 5 and 100 pp is 200.      *)
(* Multiples of 0.5 are exact in binary floating point, so the integer     *)
(* arithmetic below is the arithmetic the interpreter performs on them.    *)
(***************************************************************************)
EXTENDS Integers, Sequences, FiniteSets, TLC

VARIABLES op, args, ret, args_after, default_forecast_years

\* The pipeline runner (scripts/run_analysis.py) and the report script it
\* launches (src/generate_report.py): the runner's position (pc), its
\* results mapping (nb_results) as (notebook, success) pairs in insertion
\* order, the
\* recorded success of the report (none yet, or one boolean), the process
\* exit code (none yet, or one number); of the report script, the files it
\* has written, what its generate_report returned and its exit status (none
\* yet, or one value each); and the history of what was attempted (events).
VARIABLES pc, nb_results, report_success, exit_code, files, returned, returncode,
          events

lib_vars == <<op, args, ret, args_after, default_forecast_years>>

pipe_vars == <<pc, nb_results, report_success, exit_code, files, returned,
               returncode, events>>

vars == <<op, args, ret, args_after, default_forecast_years,
          pc, nb_results, report_success, exit_code, files, returned,
          returncode, events>>

\* ------------------------------------------------------------------ bounds
\* Longest forecast horizon explored: target_year - current_year <= MaxHorizon.
MaxHorizon == 3
\* Largest number of entries in a scenario mapping supplied by the caller.
MaxScenarios == 2

\* --------------------------------------------------------------- utilities
Min(a, b) == IF a <= b THEN a ELSE b

\* Percentage points -> half points.
Pct(p) == 2 * p

\* The ceiling of scenario_forecast, min(value + annual_growth, 100).
Cap == Pct(100)

\* current_year's default value in scenario_forecast's signature.
DefaultCurrentYear == 2024

\* list(range(lo, hi)): lo, lo+1, ..., hi-1; empty when hi <= lo.
RangeList(lo, hi) == [i \in 1..(IF hi > lo THEN hi - lo ELSE 0) |-> lo + i - 1]

\* A dict is a function from its keys; d[k] = v adds or REPLACES the entry k.
DictPut(d, k, v) == [x \in (DOMAIN d) \cup {k} |-> IF x = k THEN v ELSE d[x]]

\* The scenarios argument: None, or a mapping given as its items in insertion
\* order (pairs <<name, annual growth>> with distinct names).
NoneArg == [given |-> FALSE, items |-> <<>>]
Some(items) == [given |-> TRUE, items |-> items]

\* The mapping used when scenarios is None: 4.0, 2.5 and 1.0 points per year.
DefaultScenarios ==
    << <<"optimistic", Pct(4)>>, <<"base", 5>>, <<"pessimistic", Pct(1)>> >>

\* if scenarios is None: scenarios = {...defaults...}
EffectiveScenariosEmptyIsNone(scenarios) ==
    IF (~scenarios.given) \/ scenarios.items = <<>>
        THEN DefaultScenarios ELSE scenarios.items

EffectiveScenarios(scenarios) ==
    IF ~scenarios.given THEN DefaultScenarios ELSE scenarios.items

\* One pass of the inner loop body: value = min(value + annual_growth, 100).
StepNoCap(value, annual_growth) == value + annual_growth

StepFloorZero(value, annual_growth) ==
    IF Min(value + annual_growth, Cap) < 0 THEN 0
        ELSE Min(value + annual_growth, Cap)

Step(value, annual_growth) == Min(value + annual_growth, Cap)

\* The inner loop: one value appended per forecast year, the running value
\* carried from one year to the next.
RECURSIVE ScenarioValues(_, _, _)
ScenarioValues(value, annual_growth, nyears) ==
    IF nyears = 0 THEN <<>>
    ELSE <<Step(value, annual_growth)>> \o
         ScenarioValues(Step(value, annual_growth), annual_growth, nyears - 1)

\* The variant that appends the running value before updating it.
RECURSIVE ScenarioValuesLagged(_, _, _)
ScenarioValuesLagged(value, annual_growth, nyears) ==
    IF nyears = 0 THEN <<>>
    ELSE <<value>> \o
         ScenarioValuesLagged(Step(value, annual_growth), annual_growth, nyears - 1)

ScenarioSeriesLagged(current_value, annual_growth, forecast_years) ==
    ScenarioValuesLagged(current_value, annual_growth, Len(forecast_years))

\* forecasts = []; value = current_value; for year in forecast_years: ...
ScenarioSeries(current_value, annual_growth, forecast_years) ==
    ScenarioValues(current_value, annual_growth, Len(forecast_years))

\* forecast_years = list(range(current_year + 1, target_year + 1))
ForecastYearsFromCurrent(current_year, target_year) ==
    RangeList(current_year, target_year + 1)

ForecastYears(current_year, target_year) ==
    RangeList(current_year + 1, target_year + 1)

\* The outer loop over scenarios.items(), in insertion order, writing
\* results[scenario] = forecasts into the dict that already holds 'years'.
RECURSIVE ScenarioLoop(_, _, _, _)
ScenarioLoop(results, items, current_value, forecast_years) ==
    IF items = <<>> THEN results
    ELSE ScenarioLoop(
            DictPut(results, Head(items)[1],
                    ScenarioSeries(current_value, Head(items)[2], forecast_years)),
            Tail(items), current_value, forecast_years)

\* A variant that lets the trajectory stop at the policy target.
scenario_forecast_capped_at_target(current_value, target_value, target_year, current_year, scenarios) ==
    LET forecast_years == ForecastYears(current_year, target_year)
        full == ScenarioLoop([k \in {"years"} |-> forecast_years],
                             EffectiveScenarios(scenarios),
                             current_value, forecast_years)
        names == { EffectiveScenarios(scenarios)[i][1] :
                     i \in 1..Len(EffectiveScenarios(scenarios)) }
    IN  [k \in DOMAIN full |->
            IF k \in names
                THEN [i \in DOMAIN full[k] |-> Min(full[k][i], target_value)]
                ELSE full[k]]

scenario_forecast(current_value, target_value, target_year, current_year, scenarios) ==
    LET forecast_years == ForecastYears(current_year, target_year)
    IN  ScenarioLoop([k \in {"years"} |-> forecast_years],
                     EffectiveScenarios(scenarios),
                     current_value, forecast_years)

\* ------------------------------------------------------------------ inputs
\* Current values, in half points: below zero, zero, 49, 95, 98, 100 and
\* above the ceiling.
CurrentValues == {-2, 0, Pct(49), Pct(95), Pct(98), Cap, Cap + 4}

\* Policy targets, in half points (60 and 50 points are the repository's).
TargetValues == {Pct(50), Pct(60)}

\* Annual growth rates, in half points: -1.5, 0, 2.5 and 4.0 points.
Rates == {-3, 0, 5, Pct(4)}

\* Scenario names a caller may use; any string is a legal dict key.
ScenarioNames == {"base", "low", "years"}

CurrentYears == {DefaultCurrentYear, DefaultCurrentYear + 1}

TargetYearsFor(cy) == (cy - 1)..(cy + MaxHorizon)

\* Item lists of at most MaxScenarios entries with pairwise distinct names.
ItemLists ==
    UNION {
        { s \in [1..n -> ScenarioNames \X Rates] :
            \A i, j \in 1..n : i # j => s[i][1] # s[j][1] }
        : n \in 0..MaxScenarios }

ScenarioArgs == {NoneArg} \cup { Some(s) : s \in ItemLists }

\* ============================================================ trend fits
\* linear_trend_forecast and log_trend_forecast compute in floating point.
\* Here a finite number is held in fixed point, as an integer count of
\* 1/Unit; an IEEE result that is not finite (nan, +inf, -inf) is held as
\* such.  Historical values are whole percentage points.

\* Resolution of the fixed-point arithmetic: steps per unit.
Unit == 1000

Fin(v) == [k |-> "fin", v |-> v]
NaN == [k |-> "nan", v |-> 0]
PInf == [k |-> "inf", v |-> 1]
NInf == [k |-> "inf", v |-> -1]

IsFin(a) == a.k = "fin"

Sign(i) == IF i > 0 THEN 1 ELSE IF i < 0 THEN -1 ELSE 0

\* IEEE negation, addition and subtraction.
XNeg(a) ==
    IF a.k = "fin" THEN Fin(0 - a.v)
    ELSE IF a.k = "inf" THEN [k |-> "inf", v |-> 0 - a.v]
    ELSE NaN

XAdd(a, b) ==
    IF a.k = "nan" \/ b.k = "nan" THEN NaN
    ELSE IF a.k = "fin" /\ b.k = "fin" THEN Fin(a.v + b.v)
    ELSE IF a.k = "inf" /\ b.k = "inf" THEN (IF a.v = b.v THEN a ELSE NaN)
    ELSE IF a.k = "inf" THEN a
    ELSE b

XSub(a, b) == XAdd(a, XNeg(b))

\* IEEE multiplication: 0 * inf is nan.
XMul(a, b) ==
    IF a.k = "nan" \/ b.k = "nan" THEN NaN
    ELSE IF a.k = "fin" /\ b.k = "fin" THEN Fin((a.v * b.v) \div Unit)
    ELSE IF Sign(a.v) * Sign(b.v) = 0 THEN NaN
    ELSE [k |-> "inf", v |-> Sign(a.v) * Sign(b.v)]

\* IEEE <=: false as soon as one side is nan.
XLeq(a, b) ==
    IF a.k = "nan" \/ b.k = "nan" THEN FALSE
    ELSE IF a.k = "fin" /\ b.k = "fin" THEN a.v <= b.v
    ELSE IF a.k = "inf" THEN (a.v = -1 \/ (b.k = "inf" /\ b.v = 1))
    ELSE b.v = 1

\* Largest m in lo..hi with m*m <= n (n >= lo*lo).
RECURSIVE SqrtSearch(_, _, _)
SqrtSearch(n, lo, hi) ==
    IF lo >= hi THEN lo
    ELSE LET mid == (lo + hi + 1) \div 2
         IN  IF mid * mid <= n THEN SqrtSearch(n, mid, hi)
                               ELSE SqrtSearch(n, lo, mid - 1)

Isqrt(n) == SqrtSearch(n, 0, 46340)

\* np.sqrt: nan for a negative argument, inf for inf.
XSqrt(a) ==
    IF a.k = "fin" THEN (IF a.v < 0 THEN NaN ELSE Fin(Isqrt(a.v * Unit)))
    ELSE IF a.k = "inf" /\ a.v = 1 THEN PInf
    ELSE NaN

\* num/den (den > 0) as a fixed-point number, rounded down.
FixDiv(num, den) == Unit * (num \div den) + (Unit * (num % den)) \div den

\* Floating-point division of a quotient num/den with num >= 0 whose
\* denominator may be 0.0: x/0.0 is inf, 0.0/0.0 is nan, no exception.
XRatio(num, den) ==
    IF den = 0 THEN (IF num = 0 THEN NaN ELSE PInf)
    ELSE Fin(FixDiv(num, den))

RECURSIVE SumSeq(_)
SumSeq(s) == IF s = <<>> THEN 0 ELSE Head(s) + SumSeq(Tail(s))

Dot(xs, ys) == SumSeq([i \in DOMAIN xs |-> xs[i] * ys[i]])

\* np.polyfit(x, y, 1).  An empty x raises TypeError.  Otherwise the least
\* squares line is returned as the triple (a, b, d), d > 0, standing for
\* slope a/d and intercept b/d.  With fewer than two distinct x (one point, or
\* all x equal to c) the system has rank 1: polyfit only warns (RankWarning,
\* silenced by the module's warnings.filterwarnings('ignore')) and returns
\* the minimum-norm solution of the column-scaled system, slope mean(y)/(2c)
\* and intercept mean(y)/2.
PolyFit1(xs, ys) ==
    LET n == Len(xs)
        Sx == SumSeq(xs)
        Sy == SumSeq(ys)
        Sxx == Dot(xs, xs)
        Sxy == Dot(xs, ys)
        d == n * Sxx - Sx * Sx
    IN  IF n = 0 THEN [raised |-> TRUE, rank |-> 0, a |-> 0, b |-> 0, d |-> 1]
        ELSE IF d = 0
            THEN [raised |-> FALSE, rank |-> 1,
                  a |-> Sy, b |-> Sy * xs[1], d |-> 2 * n * xs[1]]
            ELSE [raised |-> FALSE, rank |-> 2,
                  a |-> n * Sxy - Sx * Sy, b |-> Sy * Sxx - Sx * Sxy, d |-> d]

\* slope * p + intercept for a finite p.
EvalLineSwapped(fit, p) == FixDiv(fit.b * p + fit.a, fit.d)

EvalLine(fit, p) == FixDiv(fit.a * p + fit.b, fit.d)

\* np.std(residuals): the population standard deviation.
StdDev(res) ==
    LET n == Len(res)
        mean == SumSeq(res) \div n
        dev == [i \in DOMAIN res |-> res[i] - mean]
    IN  Isqrt(Dot(dev, dev) \div n)

\* residuals = values - (slope * x + intercept)
Residuals(fit, xs, values) ==
    [i \in DOMAIN xs |-> Unit * values[i] - EvalLine(fit, xs[i])]

\* std_error = np.std(residuals)
StdError(fit, xs, values) == StdDev(Residuals(fit, xs, values))

\* 1.96 as a fixed-point number.
Z95 == (196 * Unit) \div 100

\* np.sum((years - years.mean())**2) times len(years), a whole number:
\* n*Sxx - Sx^2.
SqDevSumUnsquared(years) == Len(years) * SumSeq(years) - Len(years) * SumSeq(years)

SqDevSum(years) ==
    Len(years) * Dot(years, years) - SumSeq(years) * SumSeq(years)

\* (y - years.mean())**2 / np.sum((years - years.mean())**2), which is
\* (n*y - Sx)^2 / (n * (n*Sxx - Sx^2)).
LeverageRatio(years, y) ==
    LET n == Len(years)
        Sx == SumSeq(years)
    IN  XRatio((n * y - Sx) * (n * y - Sx), n * SqDevSum(years))

\* margin = 1.96 * std_error * np.sqrt(1 + 1/len(years) + ratio), per year.
LinearMargin(std_error, years, y) ==
    XMul(XMul(Fin(Z95), Fin(std_error)),
         XSqrt(XAdd(Fin(Unit + FixDiv(1, Len(years))), LeverageRatio(years, y))))

\* lower = forecast - margin; upper = forecast + margin
LowerSwapped(forecast, margin) == XAdd(forecast, margin)

Lower(forecast, margin) == XSub(forecast, margin)

Upper(forecast, margin) == XAdd(forecast, margin)

Raised(exc) == [status |-> "error", exc |-> exc]

Returned(forecast, lower, upper) ==
    [status |-> "ok", forecast |-> forecast, lower |-> lower, upper |-> upper]

\* The forecast, the residual standard error and the interval of a fitted
\* line, for forecast years of any value.
LinearProjection(fit, years, values, forecast_years) ==
    LET forecast == [i \in DOMAIN forecast_years |->
                        Fin(EvalLine(fit, forecast_years[i]))]
        std_error == StdError(fit, years, values)
        margin == [i \in DOMAIN forecast_years |->
                      LinearMargin(std_error, years, forecast_years[i])]
    IN  Returned(forecast,
                 [i \in DOMAIN forecast_years |-> Lower(forecast[i], margin[i])],
                 [i \in DOMAIN forecast_years |-> Upper(forecast[i], margin[i])])

linear_trend_forecast_future_only(years, values, forecast_years) ==
    LET fit == PolyFit1(years, values)
    IN  IF fit.raised THEN Raised("TypeError")
        ELSE IF \E i \in DOMAIN forecast_years, h \in DOMAIN years :
                    forecast_years[i] <= years[h]
            THEN Raised("ValueError")
        ELSE LinearProjection(fit, years, values, forecast_years)

linear_trend_forecast(years, values, forecast_years) ==
    LET fit == PolyFit1(years, values)
    IN  IF fit.raised THEN Raised("TypeError")
        ELSE LinearProjection(fit, years, values, forecast_years)

\* Natural logarithms of 1..12 to two decimals.
LnTable == <<0, 69, 110, 139, 161, 179, 195, 208, 220, 230, 240, 248>>

\* np.log1p(x) for an integer x, in hundredths: ln(1 + x) for x >= 0, -inf
\* at x = -1 and nan below (a warning, not an exception).
Log1p(x) ==
    IF x >= 0 THEN Fin(LnTable[x + 1])
    ELSE IF x = -1 THEN NInf
    ELSE NaN

\* margin = 1.96 * std_error, one number for all forecast years.
LogMarginOneSigma(std_error) == Fin(std_error)

LogMargin(std_error) == XMul(Fin(Z95), Fin(std_error))

SeqMin(s) == CHOOSE m \in { s[i] : i \in DOMAIN s } : \A i \in DOMAIN s : m <= s[i]

\* slope * log_forecast_year + intercept, the transformed year possibly
\* -inf or nan.
EvalLineX(fit, t) ==
    IF t.k = "fin" THEN Fin(EvalLine(fit, t.v))
    ELSE IF t.k = "nan" \/ fit.a = 0 THEN NaN
    ELSE [k |-> "inf", v |-> Sign(fit.a) * t.v]

log_trend_forecast(years, values, forecast_years) ==
    IF years = <<>> THEN Raised("ValueError")
    ELSE
      LET base_year == SeqMin(years)
          log_years == [i \in DOMAIN years |-> Log1p(years[i] - base_year + 1).v]
          log_forecast_years == [i \in DOMAIN forecast_years |->
                                    Log1p(forecast_years[i] - base_year + 1)]
          fit == PolyFit1(log_years, values)
          forecast == [i \in DOMAIN forecast_years |->
                          EvalLineX(fit, log_forecast_years[i])]
          std_error == StdError(fit, log_years, values)
          margin == LogMargin(std_error)
      IN  Returned(forecast,
                   [i \in DOMAIN forecast_years |-> Lower(forecast[i], margin)],
                   [i \in DOMAIN forecast_years |-> Upper(forecast[i], margin)])

\* ------------------------------------------------- calculate_growth_rates
\* total_growth / period_years, a numpy division of a float by an integer:
\* x/0 is inf, 0/0 is nan (a warning, not an exception).
AnnualGrowthUndivided(total_growth, period_years) == Fin(Unit * total_growth)

AnnualGrowth(total_growth, period_years) ==
    IF period_years = 0
        THEN (IF total_growth = 0 THEN NaN
              ELSE [k |-> "inf", v |-> Sign(total_growth)])
    ELSE IF period_years > 0 THEN Fin(FixDiv(total_growth, period_years))
    ELSE Fin(FixDiv(0 - total_growth, 0 - period_years))

\* The row appended for the points i-1 and i (i counted from 1 as in the
\* code's loop, the sequences indexed from 1 here).
GrowthRow(years, values, i) ==
    LET period_years == years[i + 1] - years[i]
        total_growth == values[i + 1] - values[i]
    IN  [period_start |-> years[i], period_end |-> years[i + 1],
         period_years |-> period_years,
         start_value |-> values[i], end_value |-> values[i + 1],
         total_growth_pp |-> total_growth,
         annual_growth_pp |-> AnnualGrowth(total_growth, period_years)]

\* for i in range(1, len(years)): one row per consecutive pair; the loop
\* body never runs for fewer than two points and the empty row list makes an
\* empty DataFrame.
calculate_growth_rates(years, values) ==
    [status |-> "ok",
     value |-> [i \in 1..(Len(years) - 1) |-> GrowthRow(years, values, i)]]

\* ------------------------------------------------------- trend-fit inputs
\* Most historical points per call.
MaxPoints == 3

\* Historical years and values (whole percentage points) a caller passes.
HistYears == {2020, 2021, 2022}
HistValues == {10, 12, 14}

\* Series of (year, value) points in any order, repeated years included.
HistSeries == UNION { [1..n -> HistYears \X HistValues] : n \in 0..MaxPoints }

YearsOf(series) == [i \in DOMAIN series |-> series[i][1]]
ValuesOf(series) == [i \in DOMAIN series |-> series[i][2]]

\* Forecast-year lists: none, one year ahead, the aggregator's default,
\* years overlapping the history, and years at or before its start.
ForecastLists ==
    { <<>>, <<2023>>, <<2025, 2026, 2027>>, <<2020, 2024>>, <<2017, 2020>> }

\* Survey years and values (whole percentage points) of a growth table.
GrowthYears == {2011, 2014, 2017}
GrowthValues == {14, 22, 35}

GrowthSeries == UNION { [1..n -> GrowthYears \X GrowthValues] : n \in 0..MaxPoints }

\* -------------------------------------------------- forecast_access_usage
\* A row of the unified dataset: record_type, indicator_code,
\* observation_date (year * 100 + month) and value_numeric.
Row(record_type, indicator_code, observation_date, value_numeric) ==
    [record_type |-> record_type, indicator_code |-> indicator_code,
     observation_date |-> observation_date, value_numeric |-> value_numeric]

\* observation_date.dt.year
YearOfDate(observation_date) == observation_date \div 100

\* frame[frame[column] == wanted], rows kept in their order.
WhereRecordTypeAll(frame, wanted) == frame

WhereRecordType(frame, wanted) ==
    SelectSeq(frame, LAMBDA r : r.record_type = wanted)

WhereIndicator(frame, wanted) ==
    SelectSeq(frame, LAMBDA r : r.indicator_code = wanted)

\* sort_values('observation_date'): ascending dates, rows of one date in
\* their original order.
RECURSIVE InsertByDate(_, _)
InsertByDate(sorted, r) ==
    IF sorted = <<>> THEN <<r>>
    ELSE IF sorted[Len(sorted)].observation_date <= r.observation_date
        THEN Append(sorted, r)
    ELSE Append(InsertByDate(SubSeq(sorted, 1, Len(sorted) - 1), r),
                sorted[Len(sorted)])

RECURSIVE SortByDate(_)
SortByDate(frame) ==
    IF frame = <<>> THEN <<>>
    ELSE InsertByDate(SortByDate(SubSeq(frame, 1, Len(frame) - 1)),
                      frame[Len(frame)])

\* data['observation_date'].dt.year.values: one year per row.
HistoricalYearsUnique(data) ==
    LET S == { YearOfDate(data[i].observation_date) : i \in DOMAIN data }
    IN  IF S = {} THEN <<>>
        ELSE CHOOSE s \in [1..Cardinality(S) -> S] :
                \A i, j \in 1..Cardinality(S) : i < j => s[i] < s[j]

HistoricalYears(data) ==
    [i \in DOMAIN data |-> YearOfDate(data[i].observation_date)]

\* 'target' and 'target_year' of the two entries: literals of the code.
AccessTarget == [target |-> 60, target_year |-> 2025]

UsageTargetAsAccess == [target |-> 60, target_year |-> 2025]

UsageTarget == [target |-> 50, target_year |-> 2025]

\* One indicator's entry of the result mapping, built from its date-sorted
\* observations; an error of the linear fit (empty history) propagates.
IndicatorEntry(indicator, code, data, forecast_years, target) ==
    LET years == HistoricalYears(data)
        values == [i \in DOMAIN data |-> data[i].value_numeric]
        linear == linear_trend_forecast(years, values, forecast_years)
        log == log_trend_forecast(years, values, forecast_years)
    IN  IF linear.status = "error" THEN linear
        ELSE IF log.status = "error" THEN log
        ELSE [status |-> "ok",
              value |-> [indicator |-> indicator,
                         code |-> code,
                         current_value |-> values[Len(values)],
                         current_year |-> years[Len(years)],
                         historical_years |-> years,
                         historical_values |-> values,
                         forecast_years |-> forecast_years,
                         linear_forecast |-> linear.forecast,
                         linear_lower |-> linear.lower,
                         linear_upper |-> linear.upper,
                         log_forecast |-> log.forecast,
                         log_lower |-> log.lower,
                         log_upper |-> log.upper,
                         target |-> target.target,
                         target_year |-> target.target_year]]

\* if len(usg_data) >= 2
UsageGuardAtLeastOne(usg_data) == Len(usg_data) >= 1

UsageGuardDistinctYears(usg_data) ==
    Cardinality({ YearOfDate(usg_data[i].observation_date) : i \in DOMAIN usg_data }) >= 2

UsageGuard(usg_data) == Len(usg_data) >= 2

\* forecast_access_usage(df, forecast_years): the result mapping, or the
\* error raised while the ownership entry is built.
forecast_access_usage(df, forecast_years) ==
    LET observations == WhereRecordType(df, "observation")
        acc_data == SortByDate(WhereIndicator(observations, "ACC_OWNERSHIP"))
        access == IndicatorEntry("Account Ownership Rate", "ACC_OWNERSHIP",
                                 acc_data, forecast_years, AccessTarget)
        usg_data == SortByDate(WhereIndicator(observations, "USG_DIGITAL_PAYMENT"))
        usage == IndicatorEntry("Digital Payment Adoption", "USG_DIGITAL_PAYMENT",
                                usg_data, forecast_years, UsageTarget)
    IN  IF access.status = "error" THEN access
        ELSE IF UsageGuard(usg_data)
            THEN (IF usage.status = "error" THEN usage
                  ELSE [status |-> "ok",
                        value |-> DictPut(DictPut(<<>>, "access", access.value),
                                          "usage", usage.value)])
        ELSE [status |-> "ok", value |-> DictPut(<<>>, "access", access.value)]

\* Most rows of a dataset passed to the aggregator.
MaxRows == 3

\* Rows a dataset is made of: ownership and digital-payment observations
\* (two of each in 2022), a target record carrying the ownership code, and
\* an observation of another indicator.
DatasetRows ==
    { Row("observation", "ACC_OWNERSHIP", 202106, 10),
      Row("observation", "ACC_OWNERSHIP", 202203, 12),
      Row("observation", "ACC_OWNERSHIP", 202209, 14),
      Row("observation", "ACC_OWNERSHIP", 202411, 12),
      Row("observation", "USG_DIGITAL_PAYMENT", 202203, 10),
      Row("observation", "USG_DIGITAL_PAYMENT", 202209, 12),
      Row("observation", "USG_DIGITAL_PAYMENT", 202411, 14),
      Row("target", "ACC_OWNERSHIP", 202512, 60),
      Row("observation", "ACC_MM_ACCOUNT", 202106, 10) }

Datasets == UNION { [1..n -> DatasetRows] : n \in 0..MaxRows }

\* The forecast_years argument: left out, or a list of the caller.
ForecastYearArgs == { NoneArg, Some(<<2026>>), Some(<<2024, 2030>>) }

\* -------------------------------------------------- create_forecast_table
\* f"{x:.1f}": the sign, and the number of tenths nearest to |x| (a tie goes
\* to the even one); nan and inf print as such.
Format1(x) ==
    IF ~IsFin(x) THEN [k |-> x.k, sign |-> IF x.v < 0 THEN "-" ELSE "", tenths |-> 0]
    ELSE LET m == IF x.v < 0 THEN 0 - x.v ELSE x.v
             q == (10 * m) \div Unit
             r == (10 * m) % Unit
             t == IF 2 * r > Unit \/ (2 * r = Unit /\ q % 2 = 1) THEN q + 1 ELSE q
         IN  [k |-> "fin", sign |-> IF x.v < 0 THEN "-" ELSE "", tenths |-> t]

\* f"{data['target']:.0f}%" in the row of the target year, '-' elsewhere.
TargetCellAlways(data, year) == [dash |-> FALSE, whole |-> data.target]

TargetCell(data, year) ==
    IF year = data.target_year THEN [dash |-> FALSE, whole |-> data.target]
    ELSE [dash |-> TRUE, whole |-> 0]

\* The rows of one indicator: one per forecast year, in order.
TableRows(data) ==
    [i \in DOMAIN data.forecast_years |->
        [Indicator |-> data.indicator,
         Year |-> data.forecast_years[i],
         Linear_Forecast |-> Format1(data.linear_forecast[i]),
         CI_95 |-> <<Format1(data.linear_lower[i]), Format1(data.linear_upper[i])>>,
         Log_Forecast |-> Format1(data.log_forecast[i]),
         Target |-> TargetCell(data, data.forecast_years[i])]]

\* An entry whose forecast sequences are shorter than its forecast_years
\* makes data[...][i] raise IndexError.
TooShort(data) ==
    \E lst \in {data.linear_forecast, data.linear_lower, data.linear_upper,
                data.log_forecast} :
        Len(lst) < Len(data.forecast_years)

\* create_forecast_table(forecasts): the entries in insertion order
\* ('access' before 'usage').
create_forecast_table(forecasts) ==
    LET keys == SelectSeq(<<"access", "usage">>, LAMBDA k : k \in DOMAIN forecasts)
        rows == [i \in DOMAIN keys |-> TableRows(forecasts[keys[i]])]
    IN  IF \E i \in DOMAIN keys : TooShort(forecasts[keys[i]])
            THEN Raised("IndexError")
        ELSE [status |-> "ok",
              value |-> IF Len(keys) = 0 THEN <<>>
                        ELSE IF Len(keys) = 1 THEN rows[1]
                        ELSE rows[1] \o rows[2]]

\* ---------------------------------------------------- arguments at return
\* The contents of each call's argument objects when the call returns.  No
\* function assigns to an element of a parameter or calls a mutating method
\* on one: every array expression builds a new array, every pandas filter
\* and sort_values returns a new frame.
ScenarioArgsAtReturn(current_value, target_value, target_year, current_year, scenarios) ==
    [current_value |-> current_value, target_value |-> target_value,
     target_year |-> target_year, current_year |-> current_year,
     scenarios |-> scenarios]

LinearArgsAtReturn(years, values, forecast_years) ==
    [years |-> years, values |-> values, forecast_years |-> forecast_years]

\* log_years = np.log1p(years - base_year + 1) builds new arrays.
LogArgsShiftedInPlace(years, values, forecast_years) ==
    [years |-> [i \in DOMAIN years |-> years[i] - SeqMin(years) + 1],
     values |-> values, forecast_years |-> forecast_years]

LogArgsAtReturn(years, values, forecast_years) ==
    [years |-> years, values |-> values, forecast_years |-> forecast_years]

GrowthArgsAtReturn(years, values) == [years |-> years, values |-> values]

\* forecast_years is stored in the entries, not copied and not changed.
AggregatorArgsAtReturn(df, forecast_years) ==
    [df |-> df, forecast_years |-> forecast_years]

TableArgsAtReturn(forecasts) == [forecasts |-> forecasts]

\* ----------------------------------------------------------------- actions
\* The default of forecast_years, evaluated once at the def statement.
DefaultForecastYears == <<2025, 2026, 2027>>

\* The list a call works with: the caller's, or the default object.
EffectiveForecastYears(forecast_years, default) ==
    IF forecast_years.given THEN forecast_years.items ELSE default

\* Most years a caller appends to the forecast_years list of a result.
MaxAppends == 1

Init ==
    /\ op = "none"
    /\ args = <<>>
    /\ ret = <<>>
    /\ args_after = <<>>
    /\ default_forecast_years = DefaultForecastYears
    /\ pc = "notebooks"
    /\ nb_results = <<>>
    /\ report_success = <<>>
    /\ exit_code = <<>>
    /\ files = {}
    /\ returned = <<>>
    /\ returncode = <<>>
    /\ events = <<>>

\* The caller is between calls when op = "none"; it makes one call, reads the
\* result and drops it before the next call.
CallScenarioForecast ==
    /\ op = "none"
    /\ \E cv \in CurrentValues, tv \in TargetValues, cy \in CurrentYears,
          sc \in ScenarioArgs :
        \E ty \in TargetYearsFor(cy) :
          /\ op' = "scenario_forecast"
          /\ args' = [current_value |-> cv, target_value |-> tv,
                      target_year |-> ty, current_year |-> cy, scenarios |-> sc]
          /\ ret' = [status |-> "ok",
                     value |-> scenario_forecast(cv, tv, ty, cy, sc)]
          /\ args_after' = ScenarioArgsAtReturn(cv, tv, ty, cy, sc)
    /\ UNCHANGED default_forecast_years
    /\ UNCHANGED pipe_vars

CallLinearTrendForecast ==
    /\ op = "none"
    /\ \E series \in HistSeries, fy \in ForecastLists :
          /\ op' = "linear_trend_forecast"
          /\ args' = [years |-> YearsOf(series), values |-> ValuesOf(series),
                      forecast_years |-> fy]
          /\ ret' = linear_trend_forecast(YearsOf(series), ValuesOf(series), fy)
          /\ args_after' = LinearArgsAtReturn(YearsOf(series), ValuesOf(series), fy)
    /\ UNCHANGED default_forecast_years
    /\ UNCHANGED pipe_vars

CallLogTrendForecast ==
    /\ op = "none"
    /\ \E series \in HistSeries, fy \in ForecastLists :
          /\ op' = "log_trend_forecast"
          /\ args' = [years |-> YearsOf(series), values |-> ValuesOf(series),
                      forecast_years |-> fy]
          /\ ret' = log_trend_forecast(YearsOf(series), ValuesOf(series), fy)
          /\ args_after' = LogArgsAtReturn(YearsOf(series), ValuesOf(series), fy)
    /\ UNCHANGED default_forecast_years
    /\ UNCHANGED pipe_vars

CallCalculateGrowthRates ==
    /\ op = "none"
    /\ \E series \in GrowthSeries :
          /\ op' = "calculate_growth_rates"
          /\ args' = [years |-> YearsOf(series), values |-> ValuesOf(series)]
          /\ ret' = calculate_growth_rates(YearsOf(series), ValuesOf(series))
          /\ args_after' = GrowthArgsAtReturn(YearsOf(series), ValuesOf(series))
    /\ UNCHANGED default_forecast_years
    /\ UNCHANGED pipe_vars

\* forecast_years is the caller's list or, when left out, the default
\* object; args.forecast_years holds the list the call worked with.
CallForecastAccessUsage ==
    /\ op = "none"
    /\ \E df \in Datasets, fy \in ForecastYearArgs :
          LET list == EffectiveForecastYears(fy, default_forecast_years)
          IN  /\ op' = "forecast_access_usage"
              /\ args' = [df |-> df, forecast_years |-> list, defaulted |-> ~fy.given]
              /\ ret' = forecast_access_usage(df, list)
              /\ args_after' = AggregatorArgsAtReturn(df, list)
    /\ UNCHANGED default_forecast_years
    /\ UNCHANGED pipe_vars

\* The caller passes the mapping it has just received to the table builder.
CallCreateForecastTable ==
    /\ op = "forecast_access_usage"
    /\ ret.status = "ok"
    /\ op' = "create_forecast_table"
    /\ args' = [forecasts |-> ret.value]
    /\ ret' = create_forecast_table(ret.value)
    /\ args_after' = TableArgsAtReturn(ret.value)
    /\ UNCHANGED default_forecast_years
    /\ UNCHANGED pipe_vars

\* The caller appends a year to the 'forecast_years' list of a result it
\* obtained without passing forecast_years: that list is the default object
\* itself.  args and ret keep the contents they had when the call returned.
AppendToReturnedForecastYears ==
    /\ op = "forecast_access_usage"
    /\ ret.status = "ok"
    /\ args.defaulted
    /\ Len(default_forecast_years) < Len(DefaultForecastYears) + MaxAppends
    /\ default_forecast_years'
          = Append(default_forecast_years,
                   default_forecast_years[Len(default_forecast_years)] + 1)
    /\ UNCHANGED <<op, args, ret, args_after>>
    /\ UNCHANGED pipe_vars

\* The caller has consumed the result.
Discard ==
    /\ op # "none"
    /\ op' = "none"
    /\ args' = <<>>
    /\ ret' = <<>>
    /\ args_after' = <<>>
    /\ UNCHANGED default_forecast_years
    /\ UNCHANGED pipe_vars

Next ==
    \/ CallScenarioForecast
    \/ CallLinearTrendForecast
    \/ CallLogTrendForecast
    \/ CallCalculateGrowthRates
    \/ CallForecastAccessUsage
    \/ CallCreateForecastTable
    \/ Discard

Spec == Init /\ [][Next]_vars

\* Calls of the two functions that have default arguments, with a caller
\* that writes to the lists it got back.
NextShared ==
    \/ CallScenarioForecast
    \/ CallForecastAccessUsage
    \/ AppendToReturnedForecastYears
    \/ Discard

SpecShared == Init /\ [][NextShared]_vars

\* -------------------------------------------------------- pipeline runner
\* notebooks, in the order of the list in main.
Notebooks ==
    << "01_data_exploration.ipynb", "02_eda.ipynb",
       "03_impact_modeling.ipynb", "04_forecasting.ipynb" >>

\* What subprocess.run does: the child exits with a return code, or the call
\* raises.
Exited(rc) == [kind |-> "exited", returncode |-> rc, exc |-> ""]
Threw(exc) == [kind |-> "raised", returncode |-> 0, exc |-> exc]

\* Outcomes of running nbconvert on a notebook: success, a failing run, the
\* timeout, no executable, and an error the code does not anticipate.
NotebookOutcomes ==
    { Exited(0), Exited(1), Threw("TimeoutExpired"),
      Threw("FileNotFoundError"), Threw("PermissionError") }

\* run_notebook: True for return code 0, False for another return code, for
\* TimeoutExpired and for FileNotFoundError; any other exception leaves the
\* function.
run_notebook_timeout_uncaught(outcome) ==
    IF outcome.kind = "exited"
        THEN [status |-> "ok", value |-> outcome.returncode = 0]
    ELSE IF outcome.exc = "FileNotFoundError"
        THEN [status |-> "ok", value |-> FALSE]
    ELSE Raised(outcome.exc)

run_notebook(outcome) ==
    IF outcome.kind = "exited"
        THEN [status |-> "ok", value |-> outcome.returncode = 0]
    ELSE IF outcome.exc \in {"TimeoutExpired", "FileNotFoundError"}
        THEN [status |-> "ok", value |-> FALSE]
    ELSE Raised(outcome.exc)

\* Where main goes once a notebook's result is stored: to the next notebook
\* while the list lasts, then to the report.
AfterNotebookStopOnFailure(res) ==
    IF Len(res) < Len(Notebooks) /\ res[Len(res)][2] THEN "notebooks" ELSE "report"

AfterNotebook(res) ==
    IF Len(res) < Len(Notebooks) THEN "notebooks" ELSE "report"

\* An entry of the history.
Event(kind, name, outcome) == [kind |-> kind, name |-> name, outcome |-> outcome]

\* One turn of the loop of main: a notebook that does not exist is recorded
\* as False without being run; one that exists is run and the value of
\* run_notebook recorded; an exception that run_notebook lets through ends
\* the process with a traceback and exit status 1.
HandleNotebook ==
    /\ pc = "notebooks"
    /\ Len(nb_results) < Len(Notebooks)
    /\ LET nb == Notebooks[Len(nb_results) + 1]
       IN  \/ /\ nb_results' = Append(nb_results, <<nb, FALSE>>)
              /\ events' = Append(events, Event("notebook", nb, "missing"))
              /\ pc' = AfterNotebook(nb_results')
              /\ UNCHANGED exit_code
           \/ \E outcome \in NotebookOutcomes :
                LET r == run_notebook(outcome)
                    name == IF outcome.kind = "exited"
                               THEN (IF outcome.returncode = 0 THEN "rc0" ELSE "rc1")
                               ELSE outcome.exc
                IN  /\ events' = Append(events, Event("notebook", nb, name))
                    /\ IF r.status = "ok"
                          THEN /\ nb_results' = Append(nb_results, <<nb, r.value>>)
                               /\ pc' = AfterNotebook(nb_results')
                               /\ UNCHANGED exit_code
                          ELSE /\ pc' = "crashed"
                               /\ exit_code' = <<1>>
                               /\ UNCHANGED nb_results
    /\ UNCHANGED <<report_success, files, returned, returncode>>
    /\ UNCHANGED lib_vars

\* generate_report of the runner launches the report script (no try around
\* subprocess.run: a launch that raises ends the process with status 1).
StartReport ==
    /\ pc = "report"
    /\ \/ /\ events' = Append(events, Event("report", "generate_report.py", "launched"))
          /\ pc' = "script_prepare"
          /\ UNCHANGED exit_code
       \/ /\ events' = Append(events, Event("report", "generate_report.py", "OSError"))
          /\ pc' = "crashed"
          /\ exit_code' = <<1>>
    /\ UNCHANGED <<nb_results, report_success, files, returned, returncode>>
    /\ UNCHANGED lib_vars

\* ---------------------------------------------------------- report script
\* The script up to the rendered HTML: imports, load_data, figures, template.
\* An exception there is not caught: traceback, exit status 1, nothing
\* written.
ScriptPrepare ==
    /\ pc = "script_prepare"
    /\ \/ /\ pc' = "script_html"
          /\ UNCHANGED returncode
       \/ /\ pc' = "report_wait"
          /\ returncode' = <<1>>
    /\ UNCHANGED <<nb_results, report_success, exit_code, files, returned, events>>
    /\ UNCHANGED lib_vars

\* with open(html_path, 'w') as f: f.write(html_content)
ScriptWriteHTML ==
    /\ pc = "script_html"
    /\ files' = files \cup {"final_report.html"}
    /\ events' = Append(events, Event("write", "final_report.html", "written"))
    /\ pc' = "script_pdf"
    /\ UNCHANGED <<nb_results, report_success, exit_code, returned, returncode>>
    /\ UNCHANGED lib_vars

\* try: HTML(...).write_pdf(...) except Exception: print(...).  The result:
\* whether the PDF was written and whether an exception leaves the try.
ConvertPdfPropagating(converted) ==
    [pdf_written |-> converted, propagates |-> ~converted]

ConvertPdf(converted) == [pdf_written |-> converted, propagates |-> FALSE]

\* The PDF conversion, then return str(pdf_path) and the end of the script.
ScriptConvertPDF ==
    /\ pc = "script_pdf"
    /\ \E converted \in BOOLEAN :
          LET c == ConvertPdf(converted)
          IN  /\ events' = Append(events,
                      Event("convert", "final_report.pdf",
                            IF converted THEN "written" ELSE "failed"))
              /\ files' = IF c.pdf_written THEN files \cup {"final_report.pdf"}
                                           ELSE files
              /\ IF c.propagates
                    THEN returned' = returned /\ returncode' = <<1>>
                    ELSE returned' = <<"final_report.pdf">> /\ returncode' = <<0>>
    /\ pc' = "report_wait"
    /\ UNCHANGED <<nb_results, report_success, exit_code>>
    /\ UNCHANGED lib_vars

\* The runner's generate_report reads the child's return code.
ReportSucceeded(rc) == rc = 0

FinishReport ==
    /\ pc = "report_wait"
    /\ report_success' = << ReportSucceeded(returncode[1]) >>
    /\ pc' = "summary"
    /\ UNCHANGED <<nb_results, exit_code, files, returned, returncode, events>>
    /\ UNCHANGED lib_vars

\* all(results.values()) and report_success
MainSuccessNotebooksOnly(res, report_ok) == \A i \in DOMAIN res : res[i][2]

MainSuccess(res, report_ok) == (\A i \in DOMAIN res : res[i][2]) /\ report_ok

\* sys.exit(0 if success else 1)
ExitCode(success) == IF success THEN 0 ELSE 1

\* The summary is printed and the process exits.
MainExit ==
    /\ pc = "summary"
    /\ exit_code' = << ExitCode(MainSuccess(nb_results, report_success[1])) >>
    /\ pc' = "done"
    /\ UNCHANGED <<nb_results, report_success, files, returned, returncode, events>>
    /\ UNCHANGED lib_vars

NextPipeline ==
    \/ HandleNotebook
    \/ StartReport
    \/ ScriptPrepare
    \/ ScriptWriteHTML
    \/ ScriptConvertPDF
    \/ FinishReport
    \/ MainExit

SpecPipeline == Init /\ [][NextPipeline]_vars

\* ================================================== scenario_forecast claims
IsScenarioCall == op = "scenario_forecast"

\* The scenarios the call works with, as the caller understands them: the
\* supplied items, or optimistic 4.0 / base 2.5 / pessimistic 1.0 (8, 5 and 2
\* half points) when none are supplied.
CallItems ==
    IF args.scenarios.given THEN args.scenarios.items
    ELSE << <<"optimistic", 8>>, <<"base", 5>>, <<"pessimistic", 2>> >>

CallNames == { CallItems[i][1] : i \in 1..Len(CallItems) }

\* Number of years from current_year + 1 through target_year inclusive.
HorizonLen ==
    IF args.target_year > args.current_year
        THEN args.target_year - args.current_year ELSE 0

\* [current_year + 1, ..., target_year]
ExpectedYears == [i \in 1..HorizonLen |-> args.current_year + i]

\* v follows v_0 = current_value, v_k = min(v_{k-1} + rate, 100).
FollowsRecurrence(v, rate) ==
    \A k \in DOMAIN v :
        v[k] = Min((IF k = 1 THEN args.current_value ELSE v[k - 1]) + rate, 200)

\* C1 (as stated): for every input, each scenario's entry is the sequence
\* v_1..v_m with v_0 = current_value and v_k = min(v_{k-1} + rate, 100), and
\* the 'years' entry is exactly [current_year + 1, ..., target_year].
C1_AsStated ==
    IsScenarioCall =>
        /\ "years" \in DOMAIN ret.value
        /\ ret.value["years"] = ExpectedYears
        /\ \A i \in 1..Len(CallItems) :
              /\ CallItems[i][1] \in DOMAIN ret.value
              /\ Len(ret.value[CallItems[i][1]]) = HorizonLen
              /\ FollowsRecurrence(ret.value[CallItems[i][1]], CallItems[i][2])

\* C2: every value of every scenario sequence is at most 100, and whenever
\* the running value plus the growth rate is 100 or more the emitted value is
\* exactly 100.
C2_Ceiling ==
    IsScenarioCall =>
        \A i \in 1..Len(CallItems) :
            LET v == ret.value[CallItems[i][1]]
                rate == CallItems[i][2]
            IN  \A k \in DOMAIN v :
                    /\ v[k] <= 200
                    /\ ((IF k = 1 THEN args.current_value ELSE v[k - 1]) + rate >= 200
                            => v[k] = 200)

\* C2 witness: 98 + 4.0 emitted as 100.
C2_Witness ==
    /\ IsScenarioCall
    /\ args.current_value = 196
    /\ \E i \in 1..Len(CallItems) :
          /\ CallItems[i][2] = 8
          /\ Len(ret.value[CallItems[i][1]]) >= 1
          /\ ret.value[CallItems[i][1]][1] = 200

\* C3: with target_year <= current_year the call succeeds and returns an
\* empty 'years' list and an empty sequence for every scenario.
C3_EmptyHorizon ==
    (IsScenarioCall /\ args.target_year <= args.current_year) =>
        /\ ret.status = "ok"
        /\ ret.value["years"] = <<>>
        /\ \A n \in CallNames : ret.value[n] = <<>>

\* C3 witness: a call with target_year = current_year and two scenarios.
C3_Witness ==
    /\ IsScenarioCall
    /\ args.target_year = args.current_year
    /\ Len(CallItems) = 2
    /\ ret.status = "ok"
    /\ \A n \in CallNames : ret.value[n] = <<>>

\* C4: while current_value + j*rate <= 100 for every j in 1..k, the k-th
\* value is current_value + k*rate; 49 at 2.5 a year from 2024 to 2027 gives
\* [51.5, 54.0, 56.5] for [2025, 2026, 2027].
C4_BelowCeiling ==
    IsScenarioCall =>
        /\ \A i \in 1..Len(CallItems) :
              LET v == ret.value[CallItems[i][1]]
                  rate == CallItems[i][2]
              IN  \A k \in DOMAIN v :
                      (\A j \in 1..k : args.current_value + j * rate <= 200)
                          => v[k] = args.current_value + k * rate
        /\ ( /\ args.current_value = 98
             /\ args.current_year = 2024
             /\ args.target_year = 2027
             /\ args.scenarios.given
             /\ args.scenarios.items = << <<"base", 5>> >> )
           => ret.value = [years |-> <<2025, 2026, 2027>>,
                           base |-> <<103, 108, 113>>]

\* C4 witness: the worked example has been computed.
C4_Witness ==
    /\ IsScenarioCall
    /\ args.current_value = 98
    /\ args.current_year = 2024
    /\ args.target_year = 2027
    /\ args.scenarios.given
    /\ args.scenarios.items = << <<"base", 5>> >>
    /\ ret.value["base"] = <<103, 108, 113>>

\* C5 (as stated): whatever the scenario names, the result holds the forecast
\* years under 'years' plus exactly one entry per scenario name, each as long
\* as the years list.
C5_AsStated ==
    IsScenarioCall =>
        /\ "years" \in DOMAIN ret.value
        /\ ret.value["years"] = ExpectedYears
        /\ Cardinality(DOMAIN ret.value) = 1 + Cardinality(CallNames)
        /\ \A n \in CallNames :
              /\ n \in DOMAIN ret.value
              /\ Len(ret.value[n]) = Len(ret.value["years"])

\* C6: no lower clamp: with a zero or negative rate the call succeeds, the
\* sequence never increases, and (starting at or below 100) the k-th value is
\* current_value + k*rate even when that is below 0.
C6_NoLowerClamp ==
    IsScenarioCall =>
        \A i \in 1..Len(CallItems) :
            LET v == ret.value[CallItems[i][1]]
                rate == CallItems[i][2]
            IN  rate <= 0 =>
                  /\ ret.status = "ok"
                  /\ Len(v) = HorizonLen
                  /\ \A k \in DOMAIN v : k > 1 => v[k] <= v[k - 1]
                  /\ args.current_value <= 200 =>
                        \A k \in DOMAIN v : v[k] = args.current_value + k * rate

\* C6 witness: a sequence that starts at 0 or above and falls below 0.
C6_Witness ==
    /\ IsScenarioCall
    /\ args.current_value >= 0
    /\ \E i \in 1..Len(CallItems) :
          /\ CallItems[i][2] < 0
          /\ \E k \in DOMAIN ret.value[CallItems[i][1]] :
                ret.value[CallItems[i][1]][k] < 0

\* C7: without a scenario mapping the result holds exactly optimistic, base
\* and pessimistic, grown by 4.0, 2.5 and 1.0 points a year; with a mapping,
\* only the supplied scenarios appear beside 'years'.
C7_Defaults ==
    IsScenarioCall =>
        /\ ~args.scenarios.given =>
              /\ DOMAIN ret.value = {"years", "optimistic", "base", "pessimistic"}
              /\ Len(ret.value["optimistic"]) = HorizonLen
              /\ Len(ret.value["base"]) = HorizonLen
              /\ Len(ret.value["pessimistic"]) = HorizonLen
              /\ FollowsRecurrence(ret.value["optimistic"], 8)
              /\ FollowsRecurrence(ret.value["base"], 5)
              /\ FollowsRecurrence(ret.value["pessimistic"], 2)
        /\ args.scenarios.given =>
              DOMAIN ret.value =
                  {"years"} \cup { args.scenarios.items[i][1] :
                                     i \in 1..Len(args.scenarios.items) }

\* C7 witness: a call without a mapping, three years ahead from 49.
C7_Witness ==
    /\ IsScenarioCall
    /\ ~args.scenarios.given
    /\ args.current_value = 98
    /\ HorizonLen = 3
    /\ ret.value["optimistic"] = <<106, 114, 122>>
    /\ ret.value["pessimistic"] = <<100, 102, 104>>

\* C8: the result does not depend on target_value: the same call made with
\* any other target returns what this call returned.
C8_TargetIgnored ==
    IsScenarioCall =>
        \A tv \in TargetValues :
            scenario_forecast(args.current_value, tv, args.target_year,
                              args.current_year, args.scenarios) = ret.value

\* C8 witness: a trajectory that passes the target and keeps growing.
C8_Witness ==
    /\ IsScenarioCall
    /\ \E n \in CallNames :
          /\ Len(ret.value[n]) >= 2
          /\ ret.value[n][1] > args.target_value
          /\ ret.value[n][2] > ret.value[n][1]

\* ========================================================= trend-fit claims
IsTrendCall == op \in {"linear_trend_forecast", "log_trend_forecast"}

\* The historical years of the call hold at least two different years.
TwoDistinctYears ==
    Cardinality({ args.years[i] : i \in DOMAIN args.years }) >= 2

\* Every forecast year is at least the earliest historical year minus one,
\* which is where np.log1p(year - base_year + 1) is finite.
LogTransformFinite ==
    \A i \in DOMAIN args.forecast_years :
        \E h \in DOMAIN args.years : args.years[h] - 1 <= args.forecast_years[i]

\* A result was returned and lower[i] <= forecast[i] <= upper[i] at every
\* forecast index i.
BoundsOrdered ==
    /\ ret.status = "ok"
    /\ \A i \in DOMAIN args.forecast_years :
          /\ XLeq(ret.lower[i], ret.forecast[i])
          /\ XLeq(ret.forecast[i], ret.upper[i])

\* C9 (as stated): for the linear and the log model and any input with at
\* least two distinct historical years, lower[i] <= forecast[i] <= upper[i]
\* at every forecast index i.
C9_AsStated ==
    (IsTrendCall /\ TwoDistinctYears) => BoundsOrdered

\* C9 (amended): with at least two distinct historical years, the bounds are
\* ordered for the linear model whatever the forecast years, and for the log
\* model when no forecast year is earlier than the earliest historical year
\* minus one.
C9_BoundsOrdered ==
    ( /\ IsTrendCall
      /\ TwoDistinctYears
      /\ (op = "log_trend_forecast" => LogTransformFinite) )
    => BoundsOrdered

\* C9 witness: a log fit whose first forecast year is the year before the
\* earliest historical year, with bounds strictly on both sides of the
\* forecast.
C9_Witness ==
    /\ op = "log_trend_forecast"
    /\ TwoDistinctYears
    /\ args.forecast_years = <<2020, 2024>>
    /\ \A h \in DOMAIN args.years : args.years[h] >= 2021
    /\ LogTransformFinite
    /\ ret.status = "ok"
    /\ \A i \in 1..2 :
          /\ IsFin(ret.lower[i]) /\ IsFin(ret.forecast[i]) /\ IsFin(ret.upper[i])
          /\ ret.lower[i].v < ret.forecast[i].v
          /\ ret.forecast[i].v < ret.upper[i].v

\* C10 (as stated): a call of the linear or the log forecaster with exactly
\* one historical point, or with historical years that are all the same,
\* signals an error instead of returning (forecast, lower, upper).
C10_AsStated ==
    ( /\ IsTrendCall
      /\ Len(args.years) >= 1
      /\ \A i, j \in DOMAIN args.years : args.years[i] = args.years[j] )
    => ret.status = "error"

\* The historical points of the call lie on one straight line: every three
\* of them have a zero cross product.
Collinear ==
    \A i, j, k \in DOMAIN args.years :
        (args.values[j] - args.values[i]) * (args.years[k] - args.years[i])
            = (args.values[k] - args.values[i]) * (args.years[j] - args.years[i])

\* The value at year y of the line through two historical points of
\* different years, in fixed point.
LineThrough(y) ==
    LET p == CHOOSE q \in (DOMAIN args.years) \X (DOMAIN args.years) :
                 args.years[q[1]] < args.years[q[2]]
        x1 == args.years[p[1]]
        x2 == args.years[p[2]]
        v1 == args.values[p[1]]
        v2 == args.values[p[2]]
    IN  Unit * v1 + FixDiv((v2 - v1) * (y - x1), x2 - x1)

\* C11: when the historical values lie exactly on a line (at least two
\* different years), linear_trend_forecast returns the line's value at every
\* forecast year with a zero residual standard error, so that lower =
\* forecast = upper; years 2020, 2021, 2022 with values 10, 12, 14 give 16
\* for 2023.
C11_ExactLine ==
    /\ ( /\ op = "linear_trend_forecast"
         /\ TwoDistinctYears
         /\ Collinear )
       => /\ ret.status = "ok"
          /\ StdError(PolyFit1(args.years, args.values), args.years, args.values) = 0
          /\ \A i \in DOMAIN args.forecast_years :
                /\ ret.forecast[i] = Fin(LineThrough(args.forecast_years[i]))
                /\ ret.lower[i] = ret.forecast[i]
                /\ ret.upper[i] = ret.forecast[i]
    /\ ( /\ op = "linear_trend_forecast"
         /\ args.years = <<2020, 2021, 2022>>
         /\ args.values = <<10, 12, 14>>
         /\ args.forecast_years = <<2023>> )
       => /\ ret.status = "ok"
          /\ ret.forecast = << Fin(16 * Unit) >>

\* C11 witness: the worked example, returned with a collapsed interval.
C11_Witness ==
    /\ op = "linear_trend_forecast"
    /\ args.years = <<2020, 2021, 2022>>
    /\ args.values = <<10, 12, 14>>
    /\ args.forecast_years = <<2023>>
    /\ Collinear
    /\ ret.status = "ok"
    /\ ret.forecast = << Fin(16 * Unit) >>
    /\ ret.lower = ret.forecast
    /\ ret.upper = ret.forecast

\* The call has exactly two historical points, of different years.
TwoPoints ==
    /\ Len(args.years) = 2
    /\ args.years[1] # args.years[2]

\* C12: with exactly two historical points of different years the linear
\* fit is perfect (both residuals are zero), the sum of squared year
\* deviations is not zero, and the forecast and both bounds are finite for
\* every forecast year.
C12_TwoPoints ==
    (op = "linear_trend_forecast" /\ TwoPoints) =>
        /\ ret.status = "ok"
        /\ Residuals(PolyFit1(args.years, args.values), args.years, args.values)
              = <<0, 0>>
        /\ SqDevSum(args.years) # 0
        /\ \A i \in DOMAIN args.forecast_years :
              /\ IsFin(ret.forecast[i])
              /\ IsFin(ret.lower[i])
              /\ IsFin(ret.upper[i])

\* C12 witness: two points of different years and values, forecast for
\* three years ahead, every number finite.
C12_Witness ==
    /\ op = "linear_trend_forecast"
    /\ TwoPoints
    /\ args.values[1] # args.values[2]
    /\ args.forecast_years = <<2025, 2026, 2027>>
    /\ ret.status = "ok"
    /\ \A i \in 1..3 :
          IsFin(ret.forecast[i]) /\ IsFin(ret.lower[i]) /\ IsFin(ret.upper[i])
    /\ ret.forecast[1] # ret.forecast[3]

\* 1.96 * std_error of the log fit of the call.
LogCallMargin ==
    LET base_year == SeqMin(args.years)
        log_years == [i \in DOMAIN args.years |->
                          Log1p(args.years[i] - base_year + 1).v]
    IN  (Z95 * StdError(PolyFit1(log_years, args.values), log_years, args.values))
            \div Unit

\* C13: in every result of log_trend_forecast the margin is the same at
\* every forecast year: upper[i] - forecast[i] = forecast[i] - lower[i] =
\* 1.96 * std_error wherever the forecast is a number, and where it is not
\* (inf or nan) the bounds are the forecast shifted by that same margin.
C13_ConstantMargin ==
    (op = "log_trend_forecast" /\ ret.status = "ok") =>
        \A i \in DOMAIN args.forecast_years :
            IF IsFin(ret.forecast[i])
                THEN /\ IsFin(ret.lower[i]) /\ IsFin(ret.upper[i])
                     /\ ret.upper[i].v - ret.forecast[i].v = LogCallMargin
                     /\ ret.forecast[i].v - ret.lower[i].v = LogCallMargin
                ELSE /\ ret.lower[i] = XSub(ret.forecast[i], Fin(LogCallMargin))
                     /\ ret.upper[i] = XAdd(ret.forecast[i], Fin(LogCallMargin))

\* C13 witness: a log fit with a positive margin and forecasts one, five and
\* seven years from the earliest historical year that differ from each other.
C13_Witness ==
    /\ op = "log_trend_forecast"
    /\ ret.status = "ok"
    /\ args.forecast_years = <<2025, 2026, 2027>>
    /\ LogCallMargin > 0
    /\ \A i \in 1..3 : IsFin(ret.forecast[i])
    /\ ret.forecast[1] # ret.forecast[3]
    /\ \A i \in 1..3 : ret.upper[i].v - ret.forecast[i].v = LogCallMargin

\* C14: linear_trend_forecast does not validate the forecast range: with a
\* non-empty history, forecast years at or before the last historical year
\* are accepted without error and give the fitted line's value; with a
\* perfect two-point fit that value at a historical year is the historical
\* value itself.
C14_NoRangeCheck ==
    (op = "linear_trend_forecast" /\ Len(args.years) >= 1) =>
        /\ ret.status = "ok"
        /\ Len(ret.forecast) = Len(args.forecast_years)
        /\ \A i \in DOMAIN args.forecast_years :
              /\ ret.forecast[i]
                    = Fin(EvalLine(PolyFit1(args.years, args.values),
                                   args.forecast_years[i]))
              /\ (TwoDistinctYears /\ Collinear)
                    => ret.forecast[i] = Fin(LineThrough(args.forecast_years[i]))
              /\ TwoPoints =>
                    \A h \in 1..2 :
                        args.forecast_years[i] = args.years[h]
                            => ret.forecast[i] = Fin(Unit * args.values[h])

\* C14 witness: forecast years 2017 and 2020 for a history that starts in
\* 2020 and ends later, 2020 being returned with its historical value.
C14_Witness ==
    /\ op = "linear_trend_forecast"
    /\ TwoPoints
    /\ args.years = <<2020, 2022>>
    /\ args.values[1] # args.values[2]
    /\ args.forecast_years = <<2017, 2020>>
    /\ ret.status = "ok"
    /\ ret.forecast[2] = Fin(Unit * args.values[1])
    /\ IsFin(ret.forecast[1])

\* ========================================================= growth-rate claims
IsGrowthCall == op = "calculate_growth_rates"

\* q is num/den rounded down to the fixed-point resolution (den # 0).
IsQuotient(q, num, den) ==
    /\ IsFin(q)
    /\ IF den > 0
          THEN q.v * den <= Unit * num /\ Unit * num < (q.v + 1) * den
          ELSE q.v * den >= Unit * num /\ Unit * num > (q.v + 1) * den

\* C15: for n >= 2 points calculate_growth_rates returns exactly n - 1 rows
\* in order, row i for the pair (years[i], years[i+1]) with period_years =
\* years[i+1] - years[i], total_growth_pp = values[i+1] - values[i] and
\* annual_growth_pp = total_growth_pp / period_years.
C15_GrowthRows ==
    (IsGrowthCall /\ Len(args.years) >= 2) =>
        /\ ret.status = "ok"
        /\ Len(ret.value) = Len(args.years) - 1
        /\ \A i \in DOMAIN ret.value :
              LET row == ret.value[i]
              IN  /\ row.period_start = args.years[i]
                  /\ row.period_end = args.years[i + 1]
                  /\ row.start_value = args.values[i]
                  /\ row.end_value = args.values[i + 1]
                  /\ row.period_years = args.years[i + 1] - args.years[i]
                  /\ row.total_growth_pp = args.values[i + 1] - args.values[i]
                  /\ IF row.period_years # 0
                        THEN IsQuotient(row.annual_growth_pp,
                                        row.total_growth_pp, row.period_years)
                        ELSE ~IsFin(row.annual_growth_pp)

\* C15 witness: three points in year order, 2011 to 2014 to 2017, whose two
\* rows have an annual growth that is not a whole number of points.
C15_Witness ==
    /\ IsGrowthCall
    /\ args.years = <<2011, 2014, 2017>>
    /\ args.values = <<14, 22, 35>>
    /\ ret.status = "ok"
    /\ Len(ret.value) = 2
    /\ ret.value[1].total_growth_pp = 8
    /\ ret.value[1].annual_growth_pp = Fin(FixDiv(8, 3))
    /\ ret.value[2].annual_growth_pp = Fin(FixDiv(13, 3))
    /\ ret.value[1].annual_growth_pp.v % Unit # 0

\* C16 (as stated): calculate_growth_rates signals an error when it is given
\* fewer than 2 points (0 or 1).
C16_AsStated ==
    (IsGrowthCall /\ Len(args.years) < 2) => ret.status = "error"

\* ========================================================= aggregator claims
IsAggregatorCall == op = "forecast_access_usage"

\* The observation rows of the call's dataset that carry the indicator code,
\* in the dataset's row order.
ObservationRows(code) ==
    SelectSeq(args.df, LAMBDA r : r.record_type = "observation"
                                  /\ r.indicator_code = code)

OwnershipRows == Len(ObservationRows("ACC_OWNERSHIP"))

UsageRows == Len(ObservationRows("USG_DIGITAL_PAYMENT"))

\* The linear fit of the ownership observations returns.
OwnershipFitSucceeds ==
    LET rows == ObservationRows("ACC_OWNERSHIP")
    IN  linear_trend_forecast([i \in DOMAIN rows |-> YearOfDate(rows[i].observation_date)],
                              [i \in DOMAIN rows |-> rows[i].value_numeric],
                              args.forecast_years).status = "ok"

\* C17 (as stated): with 0 or 1 USG_DIGITAL_PAYMENT observation rows
\* forecast_access_usage returns a mapping whose only key is 'access' and
\* signals no error; with at least 2 such rows and a successful ownership fit
\* the mapping has exactly the keys 'access' and 'usage'.
C17_AsStated ==
    IsAggregatorCall =>
        /\ UsageRows <= 1 =>
              (ret.status = "ok" /\ DOMAIN ret.value = {"access"})
        /\ (UsageRows >= 2 /\ OwnershipFitSucceeds) =>
              (ret.status = "ok" /\ DOMAIN ret.value = {"access", "usage"})

\* C17 (amended): whenever the ownership fit succeeds, the call returns
\* without error a mapping whose only key is 'access' if there are 0 or 1
\* USG_DIGITAL_PAYMENT observation rows, and whose keys are exactly 'access'
\* and 'usage' if there are at least 2.
C17_PartialAggregation ==
    (IsAggregatorCall /\ OwnershipFitSucceeds) =>
        /\ ret.status = "ok"
        /\ UsageRows <= 1 => DOMAIN ret.value = {"access"}
        /\ UsageRows >= 2 => DOMAIN ret.value = {"access", "usage"}

\* C17 witness: two ownership observations and a single digital-payment
\* observation, returned with the ownership entry alone.
C17_Witness ==
    /\ IsAggregatorCall
    /\ OwnershipRows = 2
    /\ UsageRows = 1
    /\ ret.status = "ok"
    /\ DOMAIN ret.value = {"access"}

\* C18 (as stated): forecast_access_usage fails, the error of the ownership
\* fit propagating, whenever ACC_OWNERSHIP has fewer than 2 observations:
\* for 0 and for exactly 1.
C18_AsStated ==
    (IsAggregatorCall /\ OwnershipRows < 2) => ret.status = "error"

\* C19 (as stated): no two invocations share mutable state.  In any sequence
\* of calls of forecast_access_usage and scenario_forecast, interleaved with
\* the caller's changes to the results it got back (the returned
\* 'forecast_years' list included), each result is the function of that
\* call's arguments alone, the forecast years left out standing for
\* [2025, 2026, 2027] and the scenarios left out for the three default rates.
C19_AsStated ==
    /\ IsAggregatorCall =>
          ret = forecast_access_usage(args.df,
                    IF args.defaulted THEN <<2025, 2026, 2027>>
                                      ELSE args.forecast_years)
    /\ IsScenarioCall =>
          ret.value = scenario_forecast(args.current_value, args.target_value,
                          args.target_year, args.current_year,
                          IF args.scenarios.given THEN args.scenarios
                          ELSE Some(<< <<"optimistic", 8>>, <<"base", 5>>,
                                       <<"pessimistic", 2>> >>))

C21_FixedTargets ==
    (IsAggregatorCall /\ ret.status = "ok") =>
        /\ ret.value["access"].target = 60
        /\ ret.value["access"].target_year = 2025
        /\ "usage" \in DOMAIN ret.value =>
              /\ ret.value["usage"].target = 50
              /\ ret.value["usage"].target_year = 2025

\* C21 witness: both entries returned for forecast years that do not hold
\* 2025, each with its own target.
C21_Witness ==
    /\ IsAggregatorCall
    /\ ret.status = "ok"
    /\ args.forecast_years = <<2024, 2030>>
    /\ DOMAIN ret.value = {"access", "usage"}
    /\ ret.value["access"].target = 60
    /\ ret.value["usage"].target = 50
    /\ ret.value["usage"].target_year = 2025

\* The six forecast sequences of an entry.
ForecastSequences(e) ==
    { e.linear_forecast, e.linear_lower, e.linear_upper,
      e.log_forecast, e.log_lower, e.log_upper }

\* Element i of each forecast sequence of e is the one computed for
\* forecast year i alone from the entry's history.
AlignedWithYears(e) ==
    \A i \in DOMAIN e.forecast_years :
        LET lin == linear_trend_forecast(e.historical_years, e.historical_values,
                                         << e.forecast_years[i] >>)
            log == log_trend_forecast(e.historical_years, e.historical_values,
                                      << e.forecast_years[i] >>)
        IN  /\ << e.linear_forecast[i] >> = lin.forecast
            /\ << e.linear_lower[i] >> = lin.lower
            /\ << e.linear_upper[i] >> = lin.upper
            /\ << e.log_forecast[i] >> = log.forecast
            /\ << e.log_lower[i] >> = log.lower
            /\ << e.log_upper[i] >> = log.upper

\* C22: in every entry returned by forecast_access_usage the six sequences
\* linear_forecast, linear_lower, linear_upper, log_forecast, log_lower and
\* log_upper have one element per forecast year, in the order of
\* 'forecast_years', and historical_years and historical_values have the
\* same length.
C22_SequenceLengths ==
    (IsAggregatorCall /\ ret.status = "ok") =>
        \A key \in DOMAIN ret.value :
            LET e == ret.value[key]
            IN  /\ e.forecast_years = args.forecast_years
                /\ \A q \in ForecastSequences(e) : Len(q) = Len(e.forecast_years)
                /\ Len(e.historical_years) = Len(e.historical_values)
                /\ AlignedWithYears(e)

\* C22 witness: both entries for the two forecast years 2024 and 2030, the
\* usage history holding two observations of one year.
C22_Witness ==
    /\ IsAggregatorCall
    /\ ret.status = "ok"
    /\ args.forecast_years = <<2024, 2030>>
    /\ DOMAIN ret.value = {"access", "usage"}
    /\ ret.value["usage"].historical_years = <<2022, 2022>>
    /\ Len(ret.value["usage"].historical_values) = 2
    /\ \A key \in {"access", "usage"} :
          /\ Len(ret.value[key].linear_forecast) = 2
          /\ Len(ret.value[key].log_upper) = 2
          /\ ret.value[key].log_forecast[1] # ret.value[key].log_forecast[2]

\* ============================================================== table claims
IsTableCall == op = "create_forecast_table"

\* The keys of the forecasts mapping of the call, in mapping order.
TableKeys ==
    SelectSeq(<<"access", "usage">>, LAMBDA k : k \in DOMAIN args.forecasts)

\* Number of rows that precede the rows of the n-th key.
RowsBefore(n) ==
    IF n = 1 THEN 0 ELSE Len(args.forecasts[TableKeys[1]].forecast_years)

\* C23: create_forecast_table returns exactly one row per (indicator,
\* forecast year) pair of the forecasts mapping, in mapping order and then
\* forecast-year order, and the 'Target' column shows the indicator's target
\* in the rows whose year is that indicator's target_year and '-' in all
\* other rows.
C23_TableRows ==
    IsTableCall =>
        /\ ret.status = "ok"
        /\ Len(ret.value)
              = SumSeq([n \in DOMAIN TableKeys |->
                          Len(args.forecasts[TableKeys[n]].forecast_years)])
        /\ \A n \in DOMAIN TableKeys :
              LET e == args.forecasts[TableKeys[n]]
              IN  \A i \in DOMAIN e.forecast_years :
                      LET row == ret.value[RowsBefore(n) + i]
                      IN  /\ row.Indicator = e.indicator
                          /\ row.Year = e.forecast_years[i]
                          /\ row.Target.dash <=> (row.Year # e.target_year)
                          /\ ~row.Target.dash => row.Target.whole = e.target

\* C23 witness: both indicators and the years 2025, 2026, 2027: six rows,
\* the targets 60 and 50 in the two rows of 2025 and '-' in the others.
C23_Witness ==
    /\ IsTableCall
    /\ ret.status = "ok"
    /\ Len(TableKeys) = 2
    /\ args.forecasts["access"].forecast_years = <<2025, 2026, 2027>>
    /\ Len(ret.value) = 6
    /\ ret.value[1].Target = [dash |-> FALSE, whole |-> 60]
    /\ ret.value[4].Target = [dash |-> FALSE, whole |-> 50]
    /\ \A i \in {2, 3, 5, 6} : ret.value[i].Target.dash
    /\ ret.value[4].Indicator = "Digital Payment Adoption"
    /\ ret.value[6].Year = 2027

\* ============================================================ access claims
\* How many times row r occurs in the sequence rows.
Occurrences(rows, r) == Cardinality({ i \in DOMAIN rows : rows[i] = r })

\* The rows of a sequence arranged by ascending observation_date.
AscendingByDate(rows) ==
    IF rows = <<>> THEN <<>>
    ELSE LET R == { rows[i] : i \in DOMAIN rows }
         IN  CHOOSE s \in [DOMAIN rows -> R] :
                /\ \A r \in R : Occurrences(s, r) = Occurrences(rows, r)
                /\ \A i, j \in DOMAIN rows :
                      i < j => s[i].observation_date <= s[j].observation_date

\* e is the 'access' entry returned for the dataset df.
IsAccessEntryOf(e, df) ==
    LET r == forecast_access_usage(df, args.forecast_years)
    IN  r.status = "ok" /\ e = r.value["access"]

\* C24: the 'access' entry of forecast_access_usage depends only on the
\* rows with record_type 'observation' and indicator_code 'ACC_OWNERSHIP':
\* it is the entry obtained from those rows alone, in any row order; its
\* historical_years are in ascending date order, and current_value and
\* current_year are those of the latest-dated such observation.
C24_AccessOnlyOwnership ==
    (IsAggregatorCall /\ ret.status = "ok") =>
        LET acc == ObservationRows("ACC_OWNERSHIP")
            sorted == AscendingByDate(acc)
            e == ret.value["access"]
        IN  /\ IsAccessEntryOf(e, acc)
            /\ IsAccessEntryOf(e, sorted)
            /\ e.historical_years
                  = [i \in DOMAIN sorted |-> sorted[i].observation_date \div 100]
            /\ e.historical_values
                  = [i \in DOMAIN sorted |-> sorted[i].value_numeric]
            /\ \E i \in DOMAIN acc :
                  /\ \A j \in DOMAIN acc :
                        acc[j].observation_date <= acc[i].observation_date
                  /\ e.current_value = acc[i].value_numeric
                  /\ e.current_year = acc[i].observation_date \div 100

\* C24 witness: the ownership observation of 2024 comes first in the table,
\* followed by a target record that carries the ownership code and by the
\* ownership observation of 2021; the entry lists 2021 then 2024 and its
\* current value is that of 2024.
C24_Witness ==
    /\ IsAggregatorCall
    /\ ret.status = "ok"
    /\ Len(args.df) = 3
    /\ args.df[1].observation_date = 202411
    /\ args.df[1].indicator_code = "ACC_OWNERSHIP"
    /\ args.df[2].record_type = "target"
    /\ args.df[3].observation_date = 202106
    /\ args.df[3].indicator_code = "ACC_OWNERSHIP"
    /\ args.df[3].record_type = "observation"
    /\ ret.value["access"].historical_years = <<2021, 2024>>
    /\ ret.value["access"].current_year = 2024
    /\ ret.value["access"].current_value = args.df[1].value_numeric

\* The digital-payment observations of the call all fall in one calendar
\* year.
UsageInOneYear ==
    LET usg == ObservationRows("USG_DIGITAL_PAYMENT")
    IN  \A i, j \in DOMAIN usg :
            usg[i].observation_date \div 100 = usg[j].observation_date \div 100

\* C25: the guard of the 'usage' forecast counts observation rows, not
\* distinct years: with 2 or more USG_DIGITAL_PAYMENT observations that all
\* fall in one calendar year the usage fit is still run, on a year set of
\* zero variance (its linear bounds are then not finite), and the indicator
\* is not omitted.
C25_GuardCountsRows ==
    ( /\ IsAggregatorCall
      /\ OwnershipFitSucceeds
      /\ UsageRows >= 2
      /\ UsageInOneYear )
    => /\ ret.status = "ok"
       /\ "usage" \in DOMAIN ret.value
       /\ LET e == ret.value["usage"]
              fit == linear_trend_forecast(e.historical_years, e.historical_values,
                                           e.forecast_years)
          IN  /\ Len(e.historical_years) = UsageRows
              /\ \A i \in DOMAIN e.historical_years :
                    e.historical_years[i] = e.historical_years[1]
              /\ e.linear_forecast = fit.forecast
              /\ e.linear_lower = fit.lower
              /\ e.linear_upper = fit.upper
              /\ \A i \in DOMAIN e.forecast_years :
                    ~IsFin(e.linear_lower[i]) /\ ~IsFin(e.linear_upper[i])

\* C25 witness: the digital-payment observations of March and September
\* 2022, with different values: the usage entry is there, with infinite
\* linear bounds.
C25_Witness ==
    /\ IsAggregatorCall
    /\ ret.status = "ok"
    /\ UsageRows = 2
    /\ UsageInOneYear
    /\ "usage" \in DOMAIN ret.value
    /\ ret.value["usage"].historical_years = <<2022, 2022>>
    /\ ret.value["usage"].historical_values = <<10, 12>>
    /\ args.forecast_years = <<2025, 2026, 2027>>
    /\ ret.value["usage"].linear_lower[1] = NInf
    /\ ret.value["usage"].linear_upper[1] = PInf

\* =========================================================== pipeline claims
NotebookEvents == SelectSeq(events, LAMBDA e : e.kind = "notebook")

ReportEvents == SelectSeq(events, LAMBDA e : e.kind = "report")

\* Number of notebook events among the first n events.
NotebooksBefore(n) ==
    Cardinality({ q \in 1..n : events[q].kind = "notebook" })

\* No notebook run ended with an exception that run_notebook lets through.
NoUncaughtNotebookError ==
    \A i \in DOMAIN NotebookEvents :
        NotebookEvents[i].outcome
            \in {"missing", "rc0", "rc1", "TimeoutExpired", "FileNotFoundError"}

\* C26: main handles the four notebooks in the fixed order
\* 01_data_exploration, 02_eda, 03_impact_modeling, 04_forecasting; a
\* missing, failed or timed-out notebook is recorded as failed and the later
\* notebooks are still attempted; report generation is attempted exactly
\* once, after all four notebooks, whatever their recorded outcomes.
C26_PipelineOrder ==
    /\ Len(NotebookEvents) <= 4
    /\ \A i \in DOMAIN NotebookEvents :
          /\ NotebookEvents[i].name
                = << "01_data_exploration.ipynb", "02_eda.ipynb",
                     "03_impact_modeling.ipynb", "04_forecasting.ipynb" >>[i]
          /\ NotebookEvents[i].outcome \in {"missing", "rc1", "TimeoutExpired"} =>
                /\ i <= Len(nb_results)
                /\ nb_results[i] = <<NotebookEvents[i].name, FALSE>>
                /\ i < 4 => (Len(NotebookEvents) > i \/ pc = "notebooks")
    /\ Len(ReportEvents) <= 1
    /\ \A p \in DOMAIN events :
          events[p].kind = "report" => NotebooksBefore(p - 1) = 4
    /\ (NoUncaughtNotebookError /\ pc \notin {"notebooks", "report"})
          => Len(ReportEvents) = 1

\* C26 witness: the first notebook is missing, the second fails, the third
\* times out, the fourth is still run, and the report is attempted after it.
C26_Witness ==
    /\ pc = "done"
    /\ Len(NotebookEvents) = 4
    /\ NotebookEvents[1].outcome = "missing"
    /\ NotebookEvents[2].outcome = "rc1"
    /\ NotebookEvents[3].outcome = "TimeoutExpired"
    /\ NotebookEvents[4].outcome = "rc0"
    /\ nb_results[4] = <<"04_forecasting.ipynb", TRUE>>
    /\ Len(ReportEvents) = 1
    /\ events[5].kind = "report"

\* C27: the process exit code is 0 if and only if every one of the four
\* notebooks existed and ran with return code 0 and the report subprocess
\* returned 0; in every other case it is 1.
C27_ExitCode ==
    exit_code # <<>> =>
        /\ exit_code \in { <<0>>, <<1>> }
        /\ exit_code = <<0>> <=>
              /\ Len(NotebookEvents) = 4
              /\ \A i \in 1..4 : NotebookEvents[i].outcome = "rc0"
              /\ returncode = <<0>>

\* C27 witness: four notebooks run with return code 0, the report script
\* returns 1, and the exit code is 1.
C27_Witness ==
    /\ pc = "done"
    /\ \A i \in 1..4 : NotebookEvents[i].outcome = "rc0"
    /\ returncode = <<1>>
    /\ report_success = <<FALSE>>
    /\ exit_code = <<1>>

\* C28: run_notebook does not raise for a non-zero return code, a timeout
\* or a missing executable (FileNotFoundError): each yields False, and True
\* is returned only when the subprocess completes with return code 0.
C28_RunNotebook ==
    /\ \A i \in DOMAIN NotebookEvents :
          /\ NotebookEvents[i].outcome \in {"rc1", "TimeoutExpired", "FileNotFoundError"} =>
                (i <= Len(nb_results) /\ nb_results[i][2] = FALSE)
          /\ NotebookEvents[i].outcome = "rc0" =>
                (i <= Len(nb_results) /\ nb_results[i][2] = TRUE)
    /\ \A i \in DOMAIN nb_results :
          nb_results[i][2] = TRUE => NotebookEvents[i].outcome = "rc0"

\* C28 witness: a failing run, a timeout and a missing executable, each
\* recorded as False, followed by a successful run recorded as True.
C28_Witness ==
    /\ Len(nb_results) = 4
    /\ NotebookEvents[1].outcome = "rc1"
    /\ NotebookEvents[2].outcome = "TimeoutExpired"
    /\ NotebookEvents[3].outcome = "FileNotFoundError"
    /\ NotebookEvents[4].outcome = "rc0"
    /\ nb_results[1][2] = FALSE /\ nb_results[2][2] = FALSE
    /\ nb_results[3][2] = FALSE /\ nb_results[4][2] = TRUE

\* C29: in the report script the HTML report is written before the PDF
\* conversion is attempted, and a failed conversion is caught: generate_report
\* still returns the PDF path, the script ends with status 0, and the runner
\* records the report as successful although no PDF was produced.
C29_PdfFailureCaught ==
    \A p \in DOMAIN events :
        events[p].kind = "convert" =>
            /\ \E q \in 1..(p - 1) :
                  events[q] = Event("write", "final_report.html", "written")
            /\ "final_report.html" \in files
            /\ events[p].outcome = "failed" =>
                  /\ returned = <<"final_report.pdf">>
                  /\ returncode = <<0>>
                  /\ "final_report.pdf" \notin files
                  /\ report_success \in { <<>>, <<TRUE>> }
                  /\ pc \in {"summary", "done"} => report_success = <<TRUE>>

\* C29 witness: all notebooks succeed, the conversion fails, and the runner
\* exits with code 0 with only the HTML report on disk.
C29_Witness ==
    /\ pc = "done"
    /\ \E p \in DOMAIN events : events[p] = Event("convert", "final_report.pdf", "failed")
    /\ files = {"final_report.html"}
    /\ returned = <<"final_report.pdf">>
    /\ report_success = <<TRUE>>
    /\ exit_code = <<0>>

=============================================================================
